---- MODULE Spec2Model ----
(***************************************************************************)
(* A model of sonic_platform_base/sonic_ssd/ssd_generic.py: the SsdUtil    *)
(* reporter, its constructor, its regular-expression field extraction and  *)
(* its accessors.                                                          *)
(*                                                                         *)
(* A Python str is a sequence of lexical tokens whose concatenation is the *)
(* string: every word of a label the patterns look for ("Device",          *)
(* "Model:", "Health:", "NAND_Endurance", ...) is one token, every         *)
(* whitespace character, digit and punctuation mark is one token, and any  *)
(* other word ("InnoDisk", "XYZ") is one token.  No token but a whitespace *)
(* character holds whitespace, and no word of a label occurs inside or     *)
(* across other tokens, so matching the patterns                           *)
(* token by token gives what re.findall gives on the concatenation, and    *)
(* splitting the tokens on whitespace gives what str.split() gives.  The   *)
(* character classes are those of a Python 3 str.                          *)
(* A Python value is a record tagged "str" or "float"; a float is kept as  *)
(* its sign and the binary expansion of its magnitude, and the arithmetic  *)
(* rounds as IEEE 754 double precision does.                               *)
(*                                                                         *)
(* cls is the class body's attributes, obj the instance dictionaries, pc   *)
(* the position of each constructor, exc the exception that left it,       *)
(* model_short the constructor's local, log the Popen, parser and outside  *)
(* calls made on each reporter, calls the number of outside calls of a     *)
(* fetch or parse method, ret the last value returned to a caller.         *)
(***************************************************************************)
EXTENDS Integers, Sequences, FiniteSets, TLC

VARIABLES cls, obj, pc, exc, model_short, log, calls, ret

vars == <<cls, obj, pc, exc, model_short, log, calls, ret>>

\* ------------------------------------------------------------------ values

Str(toks) ==
    [type |-> "str", str |-> toks, neg |-> FALSE, whole |-> 0, frac |-> <<>>]

\* The float of magnitude whole + frac[1]/2 + frac[2]/4 + ..., negative
\* when neg; frac does not end in 0.
Flt(neg, whole, frac) ==
    [type |-> "float", str |-> <<>>, neg |-> neg, whole |-> whole,
     frac |-> frac]

\* An attribute that is not in the instance's own dictionary.
Unset ==
    [type |-> "unset", str |-> <<>>, neg |-> FALSE, whole |-> 0, frac |-> <<>>]

\* What a call returns before any call was made.
NoReturn == [who |-> 0, fn |-> "none", val |-> Unset]

\* What a method that returns nothing returns, and what a call that raises
\* gives its caller.
None ==
    [type |-> "none", str |-> <<>>, neg |-> FALSE, whole |-> 0, frac |-> <<>>]

Raised(e) ==
    [type |-> "exception", str |-> <<e>>, neg |-> FALSE, whole |-> 0,
     frac |-> <<>>]

SMARTCTL == <<"smartctl", " ", "{}", " ", "-a">>

INNODISK == <<"iSmart", " ", "-d", " ", "{}">>

VIRTIUM == <<"SmartCmd", " ", "-m", " ", "{}">>

NOT_AVAILABLE == Str(<<"N/A">>)

\* A character that has no escape in a string is written as the token
\* U+XXXX that names it.

\* The characters \s matches and str.split() splits on (str.isspace): the
\* blank, \t, \n, \r, \f, \v, U+001C..U+001F, U+0085, U+00A0, U+1680,
\* U+2000..U+200A, U+2028, U+2029, U+202F, U+205F and U+3000.
Space ==
    {" ", "\t", "\n", "\r", "\f", "U+000B", "U+001C", "U+001D", "U+001E",
     "U+001F", "U+0085", "U+00A0", "U+1680", "U+2000", "U+2001", "U+2002",
     "U+2003", "U+2004", "U+2005", "U+2006", "U+2007", "U+2008", "U+2009",
     "U+200A", "U+2028", "U+2029", "U+202F", "U+205F", "U+3000"}

\* The decimal digits of the other scripts, 0 to 9 in each row.
DigitBlocks ==
    <<<<"U+0660", "U+0661", "U+0662", "U+0663", "U+0664", "U+0665", "U+0666",
        "U+0667", "U+0668", "U+0669">>,
      <<"U+06F0", "U+06F1", "U+06F2", "U+06F3", "U+06F4", "U+06F5", "U+06F6",
        "U+06F7", "U+06F8", "U+06F9">>,
      <<"U+07C0", "U+07C1", "U+07C2", "U+07C3", "U+07C4", "U+07C5", "U+07C6",
        "U+07C7", "U+07C8", "U+07C9">>,
      <<"U+0966", "U+0967", "U+0968", "U+0969", "U+096A", "U+096B", "U+096C",
        "U+096D", "U+096E", "U+096F">>,
      <<"U+09E6", "U+09E7", "U+09E8", "U+09E9", "U+09EA", "U+09EB", "U+09EC",
        "U+09ED", "U+09EE", "U+09EF">>,
      <<"U+0A66", "U+0A67", "U+0A68", "U+0A69", "U+0A6A", "U+0A6B", "U+0A6C",
        "U+0A6D", "U+0A6E", "U+0A6F">>,
      <<"U+0AE6", "U+0AE7", "U+0AE8", "U+0AE9", "U+0AEA", "U+0AEB", "U+0AEC",
        "U+0AED", "U+0AEE", "U+0AEF">>,
      <<"U+0B66", "U+0B67", "U+0B68", "U+0B69", "U+0B6A", "U+0B6B", "U+0B6C",
        "U+0B6D", "U+0B6E", "U+0B6F">>,
      <<"U+0BE6", "U+0BE7", "U+0BE8", "U+0BE9", "U+0BEA", "U+0BEB", "U+0BEC",
        "U+0BED", "U+0BEE", "U+0BEF">>,
      <<"U+0C66", "U+0C67", "U+0C68", "U+0C69", "U+0C6A", "U+0C6B", "U+0C6C",
        "U+0C6D", "U+0C6E", "U+0C6F">>,
      <<"U+0CE6", "U+0CE7", "U+0CE8", "U+0CE9", "U+0CEA", "U+0CEB", "U+0CEC",
        "U+0CED", "U+0CEE", "U+0CEF">>,
      <<"U+0D66", "U+0D67", "U+0D68", "U+0D69", "U+0D6A", "U+0D6B", "U+0D6C",
        "U+0D6D", "U+0D6E", "U+0D6F">>,
      <<"U+0DE6", "U+0DE7", "U+0DE8", "U+0DE9", "U+0DEA", "U+0DEB", "U+0DEC",
        "U+0DED", "U+0DEE", "U+0DEF">>,
      <<"U+0E50", "U+0E51", "U+0E52", "U+0E53", "U+0E54", "U+0E55", "U+0E56",
        "U+0E57", "U+0E58", "U+0E59">>,
      <<"U+0ED0", "U+0ED1", "U+0ED2", "U+0ED3", "U+0ED4", "U+0ED5", "U+0ED6",
        "U+0ED7", "U+0ED8", "U+0ED9">>,
      <<"U+0F20", "U+0F21", "U+0F22", "U+0F23", "U+0F24", "U+0F25", "U+0F26",
        "U+0F27", "U+0F28", "U+0F29">>,
      <<"U+1040", "U+1041", "U+1042", "U+1043", "U+1044", "U+1045", "U+1046",
        "U+1047", "U+1048", "U+1049">>,
      <<"U+1090", "U+1091", "U+1092", "U+1093", "U+1094", "U+1095", "U+1096",
        "U+1097", "U+1098", "U+1099">>,
      <<"U+17E0", "U+17E1", "U+17E2", "U+17E3", "U+17E4", "U+17E5", "U+17E6",
        "U+17E7", "U+17E8", "U+17E9">>,
      <<"U+1810", "U+1811", "U+1812", "U+1813", "U+1814", "U+1815", "U+1816",
        "U+1817", "U+1818", "U+1819">>,
      <<"U+1946", "U+1947", "U+1948", "U+1949", "U+194A", "U+194B", "U+194C",
        "U+194D", "U+194E", "U+194F">>,
      <<"U+19D0", "U+19D1", "U+19D2", "U+19D3", "U+19D4", "U+19D5", "U+19D6",
        "U+19D7", "U+19D8", "U+19D9">>,
      <<"U+1A80", "U+1A81", "U+1A82", "U+1A83", "U+1A84", "U+1A85", "U+1A86",
        "U+1A87", "U+1A88", "U+1A89">>,
      <<"U+1A90", "U+1A91", "U+1A92", "U+1A93", "U+1A94", "U+1A95", "U+1A96",
        "U+1A97", "U+1A98", "U+1A99">>,
      <<"U+1B50", "U+1B51", "U+1B52", "U+1B53", "U+1B54", "U+1B55", "U+1B56",
        "U+1B57", "U+1B58", "U+1B59">>,
      <<"U+1BB0", "U+1BB1", "U+1BB2", "U+1BB3", "U+1BB4", "U+1BB5", "U+1BB6",
        "U+1BB7", "U+1BB8", "U+1BB9">>,
      <<"U+1C40", "U+1C41", "U+1C42", "U+1C43", "U+1C44", "U+1C45", "U+1C46",
        "U+1C47", "U+1C48", "U+1C49">>,
      <<"U+1C50", "U+1C51", "U+1C52", "U+1C53", "U+1C54", "U+1C55", "U+1C56",
        "U+1C57", "U+1C58", "U+1C59">>,
      <<"U+A620", "U+A621", "U+A622", "U+A623", "U+A624", "U+A625", "U+A626",
        "U+A627", "U+A628", "U+A629">>,
      <<"U+A8D0", "U+A8D1", "U+A8D2", "U+A8D3", "U+A8D4", "U+A8D5", "U+A8D6",
        "U+A8D7", "U+A8D8", "U+A8D9">>,
      <<"U+A900", "U+A901", "U+A902", "U+A903", "U+A904", "U+A905", "U+A906",
        "U+A907", "U+A908", "U+A909">>,
      <<"U+A9D0", "U+A9D1", "U+A9D2", "U+A9D3", "U+A9D4", "U+A9D5", "U+A9D6",
        "U+A9D7", "U+A9D8", "U+A9D9">>,
      <<"U+A9F0", "U+A9F1", "U+A9F2", "U+A9F3", "U+A9F4", "U+A9F5", "U+A9F6",
        "U+A9F7", "U+A9F8", "U+A9F9">>,
      <<"U+AA50", "U+AA51", "U+AA52", "U+AA53", "U+AA54", "U+AA55", "U+AA56",
        "U+AA57", "U+AA58", "U+AA59">>,
      <<"U+ABF0", "U+ABF1", "U+ABF2", "U+ABF3", "U+ABF4", "U+ABF5", "U+ABF6",
        "U+ABF7", "U+ABF8", "U+ABF9">>,
      <<"U+FF10", "U+FF11", "U+FF12", "U+FF13", "U+FF14", "U+FF15", "U+FF16",
        "U+FF17", "U+FF18", "U+FF19">>,
      <<"U+104A0", "U+104A1", "U+104A2", "U+104A3", "U+104A4", "U+104A5",
        "U+104A6", "U+104A7", "U+104A8", "U+104A9">>,
      <<"U+10D30", "U+10D31", "U+10D32", "U+10D33", "U+10D34", "U+10D35",
        "U+10D36", "U+10D37", "U+10D38", "U+10D39">>,
      <<"U+11066", "U+11067", "U+11068", "U+11069", "U+1106A", "U+1106B",
        "U+1106C", "U+1106D", "U+1106E", "U+1106F">>,
      <<"U+110F0", "U+110F1", "U+110F2", "U+110F3", "U+110F4", "U+110F5",
        "U+110F6", "U+110F7", "U+110F8", "U+110F9">>,
      <<"U+11136", "U+11137", "U+11138", "U+11139", "U+1113A", "U+1113B",
        "U+1113C", "U+1113D", "U+1113E", "U+1113F">>,
      <<"U+111D0", "U+111D1", "U+111D2", "U+111D3", "U+111D4", "U+111D5",
        "U+111D6", "U+111D7", "U+111D8", "U+111D9">>,
      <<"U+112F0", "U+112F1", "U+112F2", "U+112F3", "U+112F4", "U+112F5",
        "U+112F6", "U+112F7", "U+112F8", "U+112F9">>,
      <<"U+11450", "U+11451", "U+11452", "U+11453", "U+11454", "U+11455",
        "U+11456", "U+11457", "U+11458", "U+11459">>,
      <<"U+114D0", "U+114D1", "U+114D2", "U+114D3", "U+114D4", "U+114D5",
        "U+114D6", "U+114D7", "U+114D8", "U+114D9">>,
      <<"U+11650", "U+11651", "U+11652", "U+11653", "U+11654", "U+11655",
        "U+11656", "U+11657", "U+11658", "U+11659">>,
      <<"U+116C0", "U+116C1", "U+116C2", "U+116C3", "U+116C4", "U+116C5",
        "U+116C6", "U+116C7", "U+116C8", "U+116C9">>,
      <<"U+11730", "U+11731", "U+11732", "U+11733", "U+11734", "U+11735",
        "U+11736", "U+11737", "U+11738", "U+11739">>,
      <<"U+118E0", "U+118E1", "U+118E2", "U+118E3", "U+118E4", "U+118E5",
        "U+118E6", "U+118E7", "U+118E8", "U+118E9">>,
      <<"U+11950", "U+11951", "U+11952", "U+11953", "U+11954", "U+11955",
        "U+11956", "U+11957", "U+11958", "U+11959">>,
      <<"U+11C50", "U+11C51", "U+11C52", "U+11C53", "U+11C54", "U+11C55",
        "U+11C56", "U+11C57", "U+11C58", "U+11C59">>,
      <<"U+11D50", "U+11D51", "U+11D52", "U+11D53", "U+11D54", "U+11D55",
        "U+11D56", "U+11D57", "U+11D58", "U+11D59">>,
      <<"U+11DA0", "U+11DA1", "U+11DA2", "U+11DA3", "U+11DA4", "U+11DA5",
        "U+11DA6", "U+11DA7", "U+11DA8", "U+11DA9">>,
      <<"U+16A60", "U+16A61", "U+16A62", "U+16A63", "U+16A64", "U+16A65",
        "U+16A66", "U+16A67", "U+16A68", "U+16A69">>,
      <<"U+16AC0", "U+16AC1", "U+16AC2", "U+16AC3", "U+16AC4", "U+16AC5",
        "U+16AC6", "U+16AC7", "U+16AC8", "U+16AC9">>,
      <<"U+16B50", "U+16B51", "U+16B52", "U+16B53", "U+16B54", "U+16B55",
        "U+16B56", "U+16B57", "U+16B58", "U+16B59">>,
      <<"U+1D7CE", "U+1D7CF", "U+1D7D0", "U+1D7D1", "U+1D7D2", "U+1D7D3",
        "U+1D7D4", "U+1D7D5", "U+1D7D6", "U+1D7D7">>,
      <<"U+1D7D8", "U+1D7D9", "U+1D7DA", "U+1D7DB", "U+1D7DC", "U+1D7DD",
        "U+1D7DE", "U+1D7DF", "U+1D7E0", "U+1D7E1">>,
      <<"U+1D7E2", "U+1D7E3", "U+1D7E4", "U+1D7E5", "U+1D7E6", "U+1D7E7",
        "U+1D7E8", "U+1D7E9", "U+1D7EA", "U+1D7EB">>,
      <<"U+1D7EC", "U+1D7ED", "U+1D7EE", "U+1D7EF", "U+1D7F0", "U+1D7F1",
        "U+1D7F2", "U+1D7F3", "U+1D7F4", "U+1D7F5">>,
      <<"U+1D7F6", "U+1D7F7", "U+1D7F8", "U+1D7F9", "U+1D7FA", "U+1D7FB",
        "U+1D7FC", "U+1D7FD", "U+1D7FE", "U+1D7FF">>,
      <<"U+1E140", "U+1E141", "U+1E142", "U+1E143", "U+1E144", "U+1E145",
        "U+1E146", "U+1E147", "U+1E148", "U+1E149">>,
      <<"U+1E2F0", "U+1E2F1", "U+1E2F2", "U+1E2F3", "U+1E2F4", "U+1E2F5",
        "U+1E2F6", "U+1E2F7", "U+1E2F8", "U+1E2F9">>,
      <<"U+1E950", "U+1E951", "U+1E952", "U+1E953", "U+1E954", "U+1E955",
        "U+1E956", "U+1E957", "U+1E958", "U+1E959">>,
      <<"U+1FBF0", "U+1FBF1", "U+1FBF2", "U+1FBF3", "U+1FBF4", "U+1FBF5",
        "U+1FBF6", "U+1FBF7", "U+1FBF8", "U+1FBF9">>>>

\* The characters \d matches, which are the digits float() reads.
Digit ==
    {"0", "1", "2", "3", "4", "5", "6", "7", "8", "9"}
    \cup {DigitBlocks[b][k] : b \in DOMAIN DigitBlocks, k \in 1..10}

\* ------------------------------------------------------- text and numbers

RECURSIVE Join(_)
\* The string a token sequence stands for.
Join(toks) == IF toks = <<>> THEN "" ELSE Head(toks) \o Join(Tail(toks))

\* The value of a decimal digit.
DigitVal(d) ==
    CHOOSE n \in 0..9 :
        \/ ToString(n) = d
        \/ \E b \in DOMAIN DigitBlocks : DigitBlocks[b][n + 1] = d

RECURSIVE DigitsToInt(_)
DigitsToInt(ds) ==
    IF ds = <<>> THEN 0
    ELSE 10 * DigitsToInt(SubSeq(ds, 1, Len(ds) - 1)) + DigitVal(ds[Len(ds)])

RECURSIVE IntToDigits(_)
\* The decimal numeral of a natural number, as tokens.
IntToDigits(n) ==
    IF n < 10 THEN <<ToString(n)>>
    ELSE Append(IntToDigits(n \div 10), ToString(n % 10))

\* The significant bits of a float.
Precision == 53

RECURSIVE BitLen(_)
\* The number of bits of a natural number.
BitLen(w) == IF w = 0 THEN 0 ELSE 1 + BitLen(w \div 2)

\* The number of zeros a binary fraction starts with.
LeadingZeros(f) ==
    IF \E k \in 1..Len(f) : f[k] = 1
    THEN (CHOOSE k \in 1..Len(f) :
              f[k] = 1 /\ \A j \in 1..k - 1 : f[j] = 0) - 1
    ELSE Len(f)

\* A binary fraction without its trailing zeros.
Trim(f) ==
    IF \E k \in 1..Len(f) : f[k] = 1
    THEN SubSeq(f, 1, CHOOSE k \in 1..Len(f) :
                          f[k] = 1 /\ \A j \in k + 1..Len(f) : f[j] = 0)
    ELSE <<>>

\* One unit in the last place of f added to whole + 0.f: the carry stops
\* at the last zero of f, or goes into the whole part.
Increment(w, f) ==
    IF \E k \in 1..Len(f) : f[k] = 0
    THEN LET z == CHOOSE k \in 1..Len(f) :
                      f[k] = 0 /\ \A j \in k + 1..Len(f) : f[j] = 1
         IN  [whole |-> w,
              frac |-> [k \in 1..Len(f) |->
                          IF k < z THEN f[k] ELSE IF k = z THEN 1 ELSE 0]]
    ELSE [whole |-> w + 1, frac |-> [k \in 1..Len(f) |-> 0]]

\* The magnitude w + 0.f (+ something below the last bit of f when sticky)
\* rounded to the nearest float, ties to even.
Round(w, f, sticky) ==
    LET keep == IF w > 0 THEN Precision - BitLen(w)
                ELSE LeadingZeros(f) + Precision
    IN  IF Len(f) <= keep THEN [whole |-> w, frac |-> Trim(f)]
        ELSE LET kept == SubSeq(f, 1, keep)
                 rest == sticky \/ \E k \in keep + 2..Len(f) : f[k] = 1
                 odd == IF keep = 0 THEN w % 2 = 1 ELSE f[keep] = 1
                 r == IF f[keep + 1] = 1 /\ (rest \/ odd)
                      THEN Increment(w, kept)
                      ELSE [whole |-> w, frac |-> kept]
             IN  [whole |-> r.whole, frac |-> Trim(r.frac)]

\* One step of the long division of r by n (r < n) in base 2: the
\* remainder 2r mod n, computed without leaving the integers' width.
Shift(r, n) == IF r >= n - r THEN r - (n - r) ELSE r + r

Shift8(r, n) ==
    Shift(Shift(Shift(Shift(Shift(Shift(Shift(Shift(r, n), n), n), n), n),
                      n), n), n)

RECURSIVE Remainder(_, _, _)
\* The remainder of the long division after k steps.
Remainder(r, n, k) ==
    IF k = 0 THEN r
    ELSE IF k >= 8 THEN Remainder(Shift8(r, n), n, k - 8)
    ELSE Remainder(Shift(r, n), n, k - 1)

\* The k-th bit of the binary expansion of r/n (r < n).
Bit(r, n, k) ==
    IF Remainder(r, n, k - 1) >= n - Remainder(r, n, k - 1) THEN 1 ELSE 0

\* The binary expansion of r/n (r < n): the bits up to the need-th one
\* counted from the first significant bit, and the remainder left. The
\* first significant bit of r/n # 0 is among the first 32.
Expand(r, n, need, significant) ==
    LET zeros == IF significant \/ r = 0 THEN 0
                 ELSE LeadingZeros([k \in 1..32 |-> Bit(r, n, k)])
        len == zeros + need
    IN  [bits |-> [k \in 1..len |-> Bit(r, n, k)],
         rem |-> Remainder(r, n, len)]

\* float(x) / float(n) for naturals x and n # 0 that a float holds
\* exactly.
Divide(x, n) ==
    LET w == x \div n
        e == Expand(x % n, n, Precision + 1 - BitLen(w), w > 0)
        r == Round(w, e.bits, e.rem # 0)
    IN  Flt(FALSE, r.whole, r.frac)

\* 1 - 0.f for a binary fraction f that ends in 1.
Complement(f) ==
    [k \in 1..Len(f) |-> IF k = Len(f) THEN 1 ELSE 1 - f[k]]

\* c - q for a natural c and a float q >= 0.
Subtract(c, q) ==
    IF q.whole >= c
    THEN Flt(q.whole > c \/ q.frac # <<>>, q.whole - c, q.frac)
    ELSE LET r == IF q.frac = <<>>
                  THEN [whole |-> c - q.whole, frac |-> <<>>]
                  ELSE Round(c - 1 - q.whole, Complement(q.frac), FALSE)
         IN  Flt(FALSE, r.whole, r.frac)

\* 100 - (float(a) * 100 / float(n)); the numerals are short enough for
\* float(a) * 100 to be exact.
Health(a, n) == Subtract(100, Divide(100 * a, n))

\* float(s) succeeds on a str of decimal digits; the strings this program
\* passes are a captured (\d+?) group or NOT_AVAILABLE.
IsNumeric(v) ==
    /\ v.type = "str"
    /\ v.str # <<>>
    /\ \A k \in 1..Len(v.str) : v.str[k] \in Digit

\* ------------------------------------------------------------ re.findall

Lit(t) == [q |-> "one", c |-> t]

RECURSIVE Label(_)
\* The tokens of a label: its words and the blanks between them.
Label(s) ==
    IF s = "" THEN <<>>
    ELSE IF \E k \in 1..Len(s) : SubSeq(s, k, k) = " "
    THEN LET k == CHOOSE m \in 1..Len(s) :
                    /\ SubSeq(s, m, m) = " "
                    /\ \A j \in 1..m - 1 : SubSeq(s, j, j) # " "
         IN  (IF k = 1 THEN <<>> ELSE <<SubSeq(s, 1, k - 1)>>) \o <<" ">>
             \o Label(SubSeq(s, k + 1, Len(s)))
    ELSE <<s>>

\* The literals of a label, token by token.
Lits(label) == [k \in 1..Len(Label(label)) |-> Lit(Label(label)[k])]

One(c) == [q |-> "one", c |-> c]

Star(c) == [q |-> "star", c |-> c]

Plus(c) == [q |-> "plus", c |-> c]

LazyGroup(c) == [q |-> "lazy", c |-> c]

NoMatch == [ok |-> FALSE, cs |-> 0, ce |-> 0]

\* A token that is one character: written as itself, as an escape or as
\* the U+XXXX that names it.
IsChar(tok) ==
    \/ Len(tok) = 1
    \/ Len(tok) \in 6..8 /\ SubSeq(tok, 1, 2) = "U+"

\* Whether one pattern atom accepts one token.  \s, \d and . are classes,
\* anything else is a literal.
InClass(c, tok) ==
    CASE c = "\\s" -> tok \in Space
      [] c = "\\d" -> tok \in Digit
      [] c = "."   -> tok # "\n"
      [] OTHER     -> tok = c

RECURSIVE Run(_, _, _)
\* The number of consecutive tokens from pos on that the class accepts.
Run(c, buffer, pos) ==
    IF pos <= Len(buffer) /\ InClass(c, buffer[pos])
    THEN 1 + Run(c, buffer, pos + 1)
    ELSE 0

RECURSIVE MatchAt(_, _, _, _)
RECURSIVE Greedy(_, _, _, _, _, _)
RECURSIVE Lazy(_, _, _, _, _, _)

\* A greedy repetition tries the longest run first and gives back one
\* token at a time.
Greedy(pattern, k, buffer, pos, n, least) ==
    IF n < least THEN NoMatch
    ELSE LET r == MatchAt(pattern, k + 1, buffer, pos + n)
         IN  IF r.ok THEN r
             ELSE Greedy(pattern, k, buffer, pos, n - 1, least)

\* The lazy capture group tries the shortest run first; its span is the
\* match's group 1.
Lazy(pattern, k, buffer, pos, n, most) ==
    IF n > most THEN NoMatch
    ELSE LET r == MatchAt(pattern, k + 1, buffer, pos + n)
         IN  IF r.ok THEN [ok |-> TRUE, cs |-> pos, ce |-> pos + n]
             ELSE Lazy(pattern, k, buffer, pos, n + 1, most)

\* Backtracking match of pattern[k..] at buffer[pos..].
MatchAt(pattern, k, buffer, pos) ==
    IF k > Len(pattern) THEN [ok |-> TRUE, cs |-> 0, ce |-> 0]
    ELSE LET e == pattern[k] IN
         CASE e.q = "one" ->
                IF /\ pos <= Len(buffer)
                   /\ InClass(e.c, buffer[pos])
                   /\ (e.c = "." => IsChar(buffer[pos]))
                THEN MatchAt(pattern, k + 1, buffer, pos + 1)
                ELSE NoMatch
           [] e.q = "star" ->
                Greedy(pattern, k, buffer, pos, Run(e.c, buffer, pos), 0)
           [] e.q = "plus" ->
                Greedy(pattern, k, buffer, pos, Run(e.c, buffer, pos), 1)
           [] e.q = "lazy" ->
                Lazy(pattern, k, buffer, pos, 1, Run(e.c, buffer, pos))

RECURSIVE Search(_, _, _)
\* The leftmost match, which is the first element of re.findall's list.
Search(pattern, buffer, start) ==
    IF start > Len(buffer) + 1 THEN NoMatch
    ELSE LET r == MatchAt(pattern, 1, buffer, start)
         IN  IF r.ok THEN r ELSE Search(pattern, buffer, start + 1)

_parse_re(pattern, buffer) ==
    LET r == Search(pattern, buffer.str, 1)
    IN  IF r.ok THEN Str(SubSeq(buffer.str, r.cs, r.ce - 1))
        ELSE NOT_AVAILABLE

\* 'LABEL:\s*(.+?)\n'
LinePattern(label) ==
    Lits(label) \o <<Star("\\s"), LazyGroup("."), Lit("\n")>>

\* 'Health:\s*(.+?)%'
HealthPattern == <<Lit("Health:"), Star("\\s"), LazyGroup("."), Lit("%")>>

\* 'LABEL\s*\[\s*(.+?)\]'
BracketPattern(label) ==
    Lits(label)
    \o <<Star("\\s"), Lit("["), Star("\\s"), LazyGroup("."), Lit("]")>>

\* 'LABEL.\s*\[\s*(.+?)\]': the dot after the label is any one character.
DotBracketPattern(label) ==
    Lits(label)
    \o <<One("."), Star("\\s"), Lit("["), Star("\\s"), LazyGroup("."),
         Lit("]")>>

\* 'LABEL\s*\d*\s*(\d+?)\s+'
AttributePattern(label) ==
    <<Lit(label), Star("\\s"), Star("\\d"), Star("\\s"), LazyGroup("\\d"),
      Plus("\\s")>>

\* ------------------------------------------------------------- str.split

RECURSIVE split(_)
\* str.split(): the maximal runs of non-whitespace, in order.
split(toks) ==
    IF toks = <<>> THEN <<>>
    ELSE IF Head(toks) \in Space THEN split(Tail(toks))
    ELSE LET w == CHOOSE m \in 1..Len(toks) :
                    /\ \A k \in 1..m : toks[k] \notin Space
                    /\ (m < Len(toks) => toks[m + 1] \in Space)
         IN  <<SubSeq(toks, 1, w)>> \o split(SubSeq(toks, w + 1, Len(toks)))

\* ------------------------------------------------------ class and objects

Reporters == {1, 2}

AttrNames ==
    {"model", "serial", "firmware", "temperature", "health",
     "power_on_hours", "power_cycle_count", "total_bad_block_count",
     "erase_count_max", "erase_count_avg", "ssd_info", "vendor_ssd_info"}

VendorAttrs ==
    {"temperature", "health", "power_on_hours", "power_cycle_count",
     "total_bad_block_count", "erase_count_max", "erase_count_avg",
     "vendor_ssd_info"}

\* The class body: every attribute defaults to NOT_AVAILABLE.
SsdUtil == [a \in AttrNames |-> NOT_AVAILABLE]

\* A fresh instance has no attribute of its own.
NewObject == [a \in AttrNames \cup {"dev"} |-> Unset]

\* Attribute lookup: the instance's dictionary, then the class.
Attr(c, self, name) == IF self[name] # Unset THEN self[name] ELSE c[name]

vendor_ssd_utility ==
    [key \in {"Generic", "InnoDisk", "M.2", "StorFly", "Virtium"} |->
        CASE key = "Generic" ->
               [utility |-> SMARTCTL, parser |-> "parse_generic_ssd_info"]
          [] key \in {"InnoDisk", "M.2"} ->
               [utility |-> INNODISK, parser |-> "parse_innodisk_info"]
          [] key \in {"StorFly", "Virtium"} ->
               [utility |-> VIRTIUM, parser |-> "parse_virtium_info"]]

RECURSIVE Format(_, _)
\* template.format(diskdev): the command line, a str.
Format(template, diskdev) ==
    IF template = <<>> THEN <<>>
    ELSE (IF Head(template) = "{}" THEN diskdev.str ELSE <<Head(template)>>)
         \o Format(Tail(template), diskdev)

\* cmd.split(): the argument vector handed to Popen.
Argv(cmd) == [k \in 1..Len(split(cmd)) |-> Join(split(cmd)[k])]

RECURSIVE UniversalNewlines(_)
\* universal_newlines=True: "\r\n" and "\r" are read as "\n".
UniversalNewlines(toks) ==
    IF toks = <<>> THEN <<>>
    ELSE IF Head(toks) = "\r"
    THEN <<"\n">> \o UniversalNewlines(
            IF Len(toks) >= 2 /\ toks[2] = "\n"
            THEN SubSeq(toks, 3, Len(toks)) ELSE Tail(toks))
    ELSE <<Head(toks)>> \o UniversalNewlines(Tail(toks))

\* A surrogate code point, U+D800 to U+DFFF.
IsSurrogate(tok) ==
    /\ Len(tok) = 6
    /\ SubSeq(tok, 1, 3) = "U+D"
    /\ SubSeq(tok, 4, 4) \in {"8", "9", "A", "B", "C", "D", "E", "F"}

\* A character os.fsencode cannot encode (the filesystem encoding is
\* UTF-8 with the surrogateescape handler): a surrogate, but for U+DC80 to
\* U+DCFF, which stand for the bytes 0x80 to 0xFF.
Unencodable(tok) ==
    /\ IsSurrogate(tok)
    /\ ~(/\ SubSeq(tok, 1, 4) = "U+DC"
         /\ SubSeq(tok, 5, 5) \in {"8", "9", "A", "B", "C", "D", "E", "F"})

\* What Popen raises while it converts the arguments, in their order, to
\* bytes: UnicodeEncodeError on an argument that cannot be encoded,
\* ValueError on one that holds a NUL; "none" when all are converted.
Encode(args) ==
    LET bad == {k \in 1..Len(args) :
                  \E j \in 1..Len(args[k]) :
                      Unencodable(args[k][j]) \/ args[k][j] = "U+0000"}
        first == CHOOSE k \in bad : \A j \in bad : k <= j
    IN  IF bad = {} THEN "none"
        ELSE IF \E j \in 1..Len(args[first]) : Unencodable(args[first][j])
        THEN "UnicodeEncodeError"
        ELSE "ValueError"

\* subprocess.Popen(cmd.split(), ...) and process.communicate(): Popen
\* raises IndexError on an empty argument vector, UnicodeEncodeError or
\* ValueError on an argument it cannot convert, and OSError when the
\* program cannot be executed; communicate() raises UnicodeDecodeError
\* when the output is not text in the locale's encoding; otherwise the
\* decoded standard output is returned whatever the exit status.
Communicate(cmd, outcome) ==
    IF split(cmd) = <<>> THEN [exc |-> "IndexError", output |-> Unset]
    ELSE IF Encode(split(cmd)) # "none"
    THEN [exc |-> Encode(split(cmd)), output |-> Unset]
    ELSE IF ~outcome.found THEN [exc |-> "OSError", output |-> Unset]
    ELSE IF ~outcome.text
    THEN [exc |-> "UnicodeDecodeError", output |-> Unset]
    ELSE [exc |-> "none", output |-> Str(UniversalNewlines(outcome.stdout))]

\* The text _execute_shell returns, or the exception that leaves it.
_execute_shell(cmd, outcome) == Communicate(cmd, outcome)

\* The record of one Popen call: the method that made it, the argument
\* vector and the text captured (Unset when the call raised).
Exec(by, cmd, outcome) ==
    [op |-> "exec", by |-> by, what |-> Argv(cmd),
     out |-> Communicate(cmd, outcome).output, read |-> Unset]

\* The record of one parser call: the parser and the text it read.
Parse(name, text) ==
    [op |-> "parse", by |-> "", what |-> <<name>>, out |-> Unset,
     read |-> text]

\* ---------------------------------------------------------------- methods
\* A method maps the class and the instance to the class and the instance
\* after it, the exception it raised and the calls it made.

fetch_generic_ssd_info(c, self, diskdev, outcome) ==
    LET cmd == Format(vendor_ssd_utility["Generic"].utility, diskdev)
        r == _execute_shell(cmd, outcome)
    IN  [cls |-> c, exc |-> r.exc,
         ev |-> <<Exec("fetch_generic_ssd_info", cmd, outcome)>>,
         self |-> IF r.exc = "none"
                  THEN [self EXCEPT !.ssd_info = r.output] ELSE self]

parse_generic_ssd_info(c, self) ==
    LET buf == Attr(c, self, "ssd_info") IN
    [cls |-> c, exc |-> "none",
     ev |-> <<Parse("parse_generic_ssd_info", buf)>>,
     self |-> [self EXCEPT
        !.model = _parse_re(LinePattern("Device Model:"), buf),
        !.serial = _parse_re(LinePattern("Serial Number:"), buf),
        !.firmware = _parse_re(LinePattern("Firmware Version:"), buf)]]

\* As parse_innodisk_info, but the health is stored on the class.
parse_innodisk_info_class(c, self) ==
    LET buf == Attr(c, self, "vendor_ssd_info") IN
    [cls |-> [c EXCEPT !.health = _parse_re(HealthPattern, buf)],
     exc |-> "none",
     ev |-> <<Parse("parse_innodisk_info", buf)>>,
     self |-> [self EXCEPT
        !.temperature = _parse_re(BracketPattern("Temperature"), buf),
        !.power_on_hours = _parse_re(BracketPattern("Power On Hours"), buf),
        !.power_cycle_count =
            _parse_re(BracketPattern("Power Cycle Count"), buf),
        !.total_bad_block_count =
            _parse_re(BracketPattern("Total Bad Block Count"), buf),
        !.erase_count_max =
            _parse_re(DotBracketPattern("Erase Count Max"), buf),
        !.erase_count_avg =
            _parse_re(DotBracketPattern("Erase Count Avg"), buf)]]

parse_innodisk_info(c, self) ==
    LET buf == Attr(c, self, "vendor_ssd_info") IN
    [cls |-> c, exc |-> "none",
     ev |-> <<Parse("parse_innodisk_info", buf)>>,
     self |-> [self EXCEPT
        !.health = _parse_re(HealthPattern, buf),
        !.temperature = _parse_re(BracketPattern("Temperature"), buf),
        !.power_on_hours = _parse_re(BracketPattern("Power On Hours"), buf),
        !.power_cycle_count =
            _parse_re(BracketPattern("Power Cycle Count"), buf),
        !.total_bad_block_count =
            _parse_re(BracketPattern("Total Bad Block Count"), buf),
        !.erase_count_max =
            _parse_re(DotBracketPattern("Erase Count Max"), buf),
        !.erase_count_avg =
            _parse_re(DotBracketPattern("Erase Count Avg"), buf)]]

parse_virtium_info(c, self) ==
    LET buf == Attr(c, self, "vendor_ssd_info")
        nand_endurance == _parse_re(AttributePattern("NAND_Endurance"), buf)
        avg_erase_count ==
            _parse_re(AttributePattern("Average_Erase_Count"), buf)
        self1 == [self EXCEPT !.temperature =
            _parse_re(AttributePattern("Temperature_Celsius"), buf)]
        a == DigitsToInt(avg_erase_count.str)
        n == DigitsToInt(nand_endurance.str)
        ev == <<Parse("parse_virtium_info", buf)>>
    IN  IF ~IsNumeric(avg_erase_count) \/ ~IsNumeric(nand_endurance)
        THEN \* ValueError, caught
             [cls |-> c, exc |-> "none", ev |-> ev, self |-> self1]
        ELSE IF n = 0
        THEN [cls |-> c, exc |-> "ZeroDivisionError", ev |-> ev,
              self |-> self1]
        ELSE [cls |-> c, exc |-> "none", ev |-> ev,
              self |-> [self1 EXCEPT
                  !.health = Health(a, n)]]

\* A model that is not a key of the table raises KeyError before anything
\* is run.
fetch_vendor_ssd_info(c, self, diskdev, model, outcome) ==
    IF model \notin DOMAIN vendor_ssd_utility
    THEN [cls |-> c, exc |-> "KeyError", ev |-> <<>>, self |-> self]
    ELSE LET cmd == Format(vendor_ssd_utility[model].utility, diskdev)
             r == _execute_shell(cmd, outcome)
         IN  [cls |-> c, exc |-> r.exc,
              ev |-> <<Exec("fetch_vendor_ssd_info", cmd, outcome)>>,
              self |-> IF r.exc = "none"
                       THEN [self EXCEPT !.vendor_ssd_info = r.output]
                       ELSE self]

\* self.vendor_ssd_utility[model]["parser"]()
parse_vendor_ssd_info(c, self, model) ==
    IF model \notin DOMAIN vendor_ssd_utility
    THEN [cls |-> c, exc |-> "KeyError", ev |-> <<>>, self |-> self]
    ELSE LET name == vendor_ssd_utility[model].parser IN
         CASE name = "parse_generic_ssd_info" ->
                parse_generic_ssd_info(c, self)
           [] name = "parse_innodisk_info" -> parse_innodisk_info(c, self)
           [] name = "parse_virtium_info" -> parse_virtium_info(c, self)

\* ----------------------------------------------------------------- inputs

\* The longest run of blanks between a label and its value.
MaxPad == 1

\* The most calls of a public fetch or parse method on a constructed
\* reporter.
MaxCalls == 2

Pad(n) == [k \in 1..n |-> " "]

\* Device paths, one of them with a blank and one with a NUL in it.
Devices ==
    {Str(<<"/dev/sda">>), Str(<<"/dev/my", " ", "disk">>),
     Str(<<"/dev/", "U+0000", "x">>), Str(<<"/dev/", "U+D800">>)}

ModelWords ==
    {"Generic", "InnoDisk", "M.2", "StorFly", "Virtium",
     "XYZ", "innodisk", "N/A"}

\* What may follow the first word of the model on its line.
ModelSuffixes == {<<>>, <<" ", "XYZ">>, <<"XYZ">>}

ModelLines ==
    {<<>>,
     Label("Device Model:") \o <<" ", "InnoDisk">>,
     Label("Device Model:") \o <<"\f", "InnoDisk", "\n">>,
     Label("Device Model:") \o <<"\f", "\n">>,
     Label("Device Model:") \o <<" ", "Virtium", "\r", "\n">>,
     Label("Device Model:") \o <<"\r", "XYZ", "\n">>,
     Label("Device Model:") \o <<"U+2003", "StorFly", "\n">>}
    \cup {Label("Device Model:") \o Pad(n) \o <<"\n">> : n \in 0..MaxPad + 1}
    \cup {Label("Device Model:") \o Pad(n) \o <<w>> \o x \o <<"\n">> :
            n \in 0..MaxPad, w \in ModelWords, x \in ModelSuffixes}

\* The serial number and the firmware version lines.
IdentityLines ==
    {<<>>,
     Label("Serial Number:") \o <<" ", "S1", "\n">>,
     Label("Serial Number:") \o <<" ", "S1", "\n">>
       \o Label("Firmware Version:") \o <<" ", "F1", "\n">>}

\* What smartctl may print.
GenericTexts == {m \o s : m \in ModelLines, s \in IdentityLines}

HealthLines ==
    {<<>>, <<"Health:", " ", "abc", "%", "\n">>,
     <<"Health:", " ", "8", "3", "%", "\r", "\n">>}
    \cup {<<"Health:">> \o Pad(n) \o IntToDigits(h) \o <<"%", "\n">> :
            n \in 0..MaxPad, h \in {83, 150}}

BracketLine(label, v) ==
    Label(label) \o <<" ", "[", " ">> \o IntToDigits(v) \o <<"]", "\n">>

InnoDiskCounters ==
    BracketLine("Power On Hours", 7) \o BracketLine("Power Cycle Count", 3)
    \o BracketLine("Total Bad Block Count", 0)
    \o Label("Erase Count Max") \o <<".", " ", "[", "9", "]", "\n">>
    \o Label("Erase Count Avg")
    \o <<"U+00A0", " ", "[", " ", "4", " ", "]", "\n">>

\* What iSmart may print.
InnoDiskTexts ==
    {h \o t \o r : h \in HealthLines,
                   t \in {<<>>, BracketLine("Temperature", 40)},
                   r \in {<<>>, InnoDiskCounters}}

\* A SMART attribute line: label, optional numeric ID column, value.
AttributeLine(label, id, value) ==
    <<label, " ">> \o id \o (IF id = <<>> THEN <<>> ELSE <<" ">>)
    \o value \o <<"\n">>

IdColumns == {<<>>, <<"1", "6", "7">>}

EraseLines ==
    {<<>>, AttributeLine("Average_Erase_Count", <<"1", "6", "7">>, <<"1">>)}
    \cup {AttributeLine("Average_Erase_Count", id, IntToDigits(a)) :
            id \in IdColumns, a \in {50, 300}}

EnduranceLines ==
    {<<>>, AttributeLine("NAND_Endurance", <<"1", "6", "8">>, <<"N/A">>),
     AttributeLine("NAND_Endurance", <<"1", "6", "8">>, <<"3">>),
     AttributeLine("NAND_Endurance", <<"1", "6", "8">>,
                   <<"U+0662", "U+0660", "U+0660">>)}
    \cup {AttributeLine("NAND_Endurance", id, IntToDigits(n)) :
            id \in IdColumns, n \in {0, 200, 2000}}

\* What SmartCmd may print.
VirtiumTexts ==
    {t \o a \o n :
        t \in {<<>>, AttributeLine("Temperature_Celsius", <<"1", "9", "4">>,
                                   <<"4", "0">>)},
        a \in EraseLines, n \in EnduranceLines}

\* What a vendor tool may print: either format, whichever tool is run.
\* What smartctl may print when it is run again as the tool of the key
\* "Generic".
RerunTexts ==
    {Label("Device Model:") \o <<" ", "Generic", "\n">>
       \o Label("Serial Number:") \o <<" ", "S2", "\n">>}

VendorTexts == InnoDiskTexts \cup VirtiumTexts \cup RerunTexts

\* A tool is absent, or it writes bytes that are not text, or it writes a
\* text.
Outcomes(texts) ==
    {[found |-> FALSE, text |-> FALSE, stdout |-> <<>>],
     [found |-> TRUE, text |-> FALSE, stdout |-> <<>>]}
    \cup {[found |-> TRUE, text |-> TRUE, stdout |-> t] : t \in texts}

\* ---------------------------------------------------------------- actions

\* The program is single-threaded: while a constructor runs nothing else
\* does.
Constructing(i) == pc[i] \notin {"new", "done", "raised"}

Idle == \A j \in Reporters : ~Constructing(j)

Init ==
    /\ cls = SsdUtil
    /\ obj = [i \in Reporters |-> NewObject]
    /\ pc = [i \in Reporters |-> "new"]
    /\ exc = [i \in Reporters |-> "none"]
    /\ model_short = [i \in Reporters |-> ""]
    /\ log = [i \in Reporters |-> <<>>]
    /\ calls = [i \in Reporters |-> 0]
    /\ ret = NoReturn

\* SsdUtil(diskdev), up to the generic part.
__init__(i, diskdev) ==
    /\ pc[i] = "new"
    /\ Idle
    /\ obj' = [obj EXCEPT ![i].dev = diskdev]
    /\ pc' = [pc EXCEPT ![i] = "fetch_generic"]
    /\ UNCHANGED <<cls, exc, model_short, log, calls, ret>>

\* A call the constructor makes: its effect r, and where the constructor
\* goes when the call returns.
ConstructorCall(i, r, next) ==
    /\ cls' = r.cls
    /\ obj' = [obj EXCEPT ![i] = r.self]
    /\ log' = [log EXCEPT ![i] = @ \o r.ev]
    /\ exc' = [exc EXCEPT ![i] = r.exc]
    /\ pc' = [pc EXCEPT ![i] = IF r.exc = "none" THEN next ELSE "raised"]
    /\ UNCHANGED <<model_short, calls, ret>>

\* self.fetch_generic_ssd_info(diskdev)
InitFetchGeneric(i, outcomes) ==
    /\ pc[i] = "fetch_generic"
    /\ \E o \in outcomes :
         ConstructorCall(i,
             fetch_generic_ssd_info(cls, obj[i], obj[i].dev, o),
             "parse_generic")

\* self.parse_generic_ssd_info()
InitParseGeneric(i) ==
    /\ pc[i] = "parse_generic"
    /\ ConstructorCall(i, parse_generic_ssd_info(cls, obj[i]),
                       "known_vendor")

\* As Dispatch, but a model without a handler is stored as "Unknown".
Dispatch_miss_unknown(model) ==
    IF model.str # <<>>
    THEN IF split(model.str) = <<>>
         THEN [next |-> "raised", exc |-> "IndexError", key |-> "",
               model |-> model]
         ELSE LET key == Join(split(model.str)[1])
              IN  IF key \in DOMAIN vendor_ssd_utility
                  THEN [next |-> "fetch_vendor", exc |-> "none",
                        key |-> key, model |-> model]
                  ELSE [next |-> "done", exc |-> "none", key |-> key,
                        model |-> Str(<<"Unknown">>)]
    ELSE [next |-> "done", exc |-> "none", key |-> "",
          model |-> Str(<<"Unknown">>)]

\* The known vendor part of the constructor: where it goes next, the model
\* it stores, the dispatch key and the exception it raises.
Dispatch(model) ==
    IF model.str # <<>>
    THEN IF split(model.str) = <<>>
         THEN [next |-> "raised", exc |-> "IndexError", key |-> "",
               model |-> model]
         ELSE LET key == Join(split(model.str)[1])
              IN  [next |-> IF key \in DOMAIN vendor_ssd_utility
                            THEN "fetch_vendor" ELSE "done",
                   exc |-> "none", key |-> key, model |-> model]
    ELSE [next |-> "done", exc |-> "none", key |-> "",
          model |-> Str(<<"Unknown">>)]

KnownVendorPart(i) ==
    /\ pc[i] = "known_vendor"
    /\ LET d == Dispatch(Attr(cls, obj[i], "model"))
       IN  /\ pc' = [pc EXCEPT ![i] = d.next]
           /\ exc' = [exc EXCEPT ![i] = d.exc]
           /\ model_short' = [model_short EXCEPT ![i] = d.key]
           /\ obj' = [obj EXCEPT ![i].model =
                        IF d.model = Attr(cls, obj[i], "model")
                        THEN @ ELSE d.model]
    /\ UNCHANGED <<cls, log, calls, ret>>

\* self.fetch_vendor_ssd_info(diskdev, model_short)
InitFetchVendor(i, outcomes) ==
    /\ pc[i] = "fetch_vendor"
    /\ \E o \in outcomes :
         ConstructorCall(i,
             fetch_vendor_ssd_info(cls, obj[i], obj[i].dev, model_short[i],
                                   o),
             "parse_vendor")

\* self.parse_vendor_ssd_info(model_short)
InitParseVendor(i) ==
    /\ pc[i] = "parse_vendor"
    /\ ConstructorCall(i, parse_vendor_ssd_info(cls, obj[i], model_short[i]),
                       "done")

\* The record of a call made from outside the constructor.
Call(fn, args) ==
    [op |-> "call", by |-> fn, what |-> args, out |-> Unset,
     read |-> Unset]

\* A public fetch or parse method called on a constructed reporter: its
\* effect r stays, and an exception goes to the caller.
PublicCall(i, fn, args, r) ==
    /\ cls' = r.cls
    /\ obj' = [obj EXCEPT ![i] = r.self]
    /\ log' = [log EXCEPT ![i] = @ \o <<Call(fn, args)>> \o r.ev]
    /\ calls' = [calls EXCEPT ![i] = @ + 1]
    /\ ret' = [who |-> i, fn |-> fn,
               val |-> IF r.exc = "none" THEN None ELSE Raised(r.exc)]
    /\ UNCHANGED <<pc, exc, model_short>>

Callable(i) == pc[i] = "done" /\ Idle /\ calls[i] < MaxCalls

CallFetchGeneric(i, devices, outcomes) ==
    /\ Callable(i)
    /\ \E d \in devices, o \in outcomes :
         PublicCall(i, "fetch_generic_ssd_info", <<Join(d.str)>>,
                    fetch_generic_ssd_info(cls, obj[i], d, o))

CallParseGeneric(i) ==
    /\ Callable(i)
    /\ PublicCall(i, "parse_generic_ssd_info", <<>>,
                  parse_generic_ssd_info(cls, obj[i]))

CallFetchVendor(i, devices, models, outcomes) ==
    /\ Callable(i)
    /\ \E d \in devices, m \in models, o \in outcomes :
         PublicCall(i, "fetch_vendor_ssd_info", <<Join(d.str), m>>,
                    fetch_vendor_ssd_info(cls, obj[i], d, m, o))

CallParseVendor(i, models) ==
    /\ Callable(i)
    /\ \E m \in models :
         PublicCall(i, "parse_vendor_ssd_info", <<m>>,
                    parse_vendor_ssd_info(cls, obj[i], m))

CallParseInnodisk(i) ==
    /\ Callable(i)
    /\ PublicCall(i, "parse_innodisk_info", <<>>,
                  parse_innodisk_info(cls, obj[i]))

CallParseVirtium(i) ==
    /\ Callable(i)
    /\ PublicCall(i, "parse_virtium_info", <<>>,
                  parse_virtium_info(cls, obj[i]))

\* An accessor of a constructed reporter returns the attribute and changes
\* nothing.
Accessor(i, fn, name) ==
    /\ pc[i] = "done"
    /\ Idle
    /\ ret' = [who |-> i, fn |-> fn, val |-> Attr(cls, obj[i], name)]
    /\ UNCHANGED <<cls, obj, pc, exc, model_short, log, calls>>

get_health(i) == Accessor(i, "get_health", "health")

get_temperature(i) == Accessor(i, "get_temperature", "temperature")

get_model(i) == Accessor(i, "get_model", "model")

get_firmware(i) == Accessor(i, "get_firmware", "firmware")

get_serial(i) == Accessor(i, "get_serial", "serial")

get_vendor_output(i) == Accessor(i, "get_vendor_output", "vendor_ssd_info")

get_power_on_hours(i) == Accessor(i, "get_power_on_hours", "power_on_hours")

get_power_cycle_count(i) ==
    Accessor(i, "get_power_cycle_count", "power_cycle_count")

get_total_bad_block_count(i) ==
    Accessor(i, "get_total_bad_block_count", "total_bad_block_count")

get_erase_count_max(i) ==
    Accessor(i, "get_erase_count_max", "erase_count_max")

get_erase_count_avg(i) ==
    Accessor(i, "get_erase_count_avg", "erase_count_avg")

\* Any accessor of reporter i.
Read(i) ==
    \/ get_health(i)
    \/ get_temperature(i)
    \/ get_model(i)
    \/ get_firmware(i)
    \/ get_serial(i)
    \/ get_vendor_output(i)
    \/ get_power_on_hours(i)
    \/ get_power_cycle_count(i)
    \/ get_total_bad_block_count(i)
    \/ get_erase_count_max(i)
    \/ get_erase_count_avg(i)

\* One reporter is constructed and read, over every tool outcome.
Next ==
    \/ \E d \in Devices : __init__(1, d)
    \/ InitFetchGeneric(1, Outcomes(GenericTexts))
    \/ InitParseGeneric(1)
    \/ KnownVendorPart(1)
    \/ InitFetchVendor(1, Outcomes(VendorTexts))
    \/ InitParseVendor(1)
    \/ Read(1)

Spec == Init /\ [][Next]_vars

\* A few representative tool outputs, for the larger scenarios.
PairGenericTexts ==
    {<<>>,
     Label("Device Model:") \o <<" ", "\n">>,
     Label("Device Model:") \o <<" ", "XYZ", "\n">>
       \o Label("Serial Number:") \o <<" ", "S1", "\n">>,
     Label("Device Model:") \o <<" ", "InnoDisk", " ", "XYZ", "\n">>
       \o Label("Serial Number:") \o <<" ", "S1", "\n">>,
     Label("Device Model:") \o <<" ", "Virtium", "\n">>}

PairVendorTexts ==
    {<<>>,
     <<"Health:", " ", "8", "3", "%", "\n">> \o BracketLine("Temperature", 40),
     <<"Health:", " ", "8", "3", "%", "\r", "\n">>,
     AttributeLine("Average_Erase_Count", <<"1", "6", "7">>, <<"5", "0">>)
       \o AttributeLine("NAND_Endurance", <<"1", "6", "8">>,
                        <<"2", "0", "0", "0">>),
     AttributeLine("Average_Erase_Count", <<"1", "6", "7">>, <<"5", "0">>)
       \o AttributeLine("NAND_Endurance", <<"1", "6", "8">>, <<"0">>)}

\* Two reporters are constructed one after the other, in either order, and
\* read.
NextPair ==
    \E i \in Reporters :
        \/ \E d \in Devices : __init__(i, d)
        \/ InitFetchGeneric(i, Outcomes(PairGenericTexts))
        \/ InitParseGeneric(i)
        \/ KnownVendorPart(i)
        \/ InitFetchVendor(i, Outcomes(PairVendorTexts))
        \/ InitParseVendor(i)
        \/ Read(i)

SpecPair == Init /\ [][NextPair]_vars

\* What the tools print when a caller uses the fetch and parse methods of a
\* constructed reporter, the device and the models it passes.
CallerGenericTexts ==
    {Label("Device Model:") \o <<" ", "Other", "\n">>
       \o Label("Serial Number:") \o <<" ", "S9", "\n">>}

CallerVendorTexts ==
    {<<"Health:", " ", "9", "0", "%", "\r", "\n">>,
     AttributeLine("Temperature_Celsius", <<"1", "9", "4">>, <<"5", "5">>)
       \o AttributeLine("Average_Erase_Count", <<"1", "6", "7">>, <<"5", "0">>)
       \o AttributeLine("NAND_Endurance", <<"1", "6", "8">>,
                        <<"2", "0", "0", "0">>)}

CallerDevices == {Str(<<"/dev/sdz">>), Str(<<"/dev/", "U+D800">>)}

CallerModels == {"InnoDisk", "Virtium", "XYZ"}

ConstructedTexts ==
    {Label("Device Model:") \o <<" ", "XYZ", "\n">>,
     Label("Device Model:") \o <<" ", "InnoDisk", " ", "XYZ", "\n">>,
     Label("Device Model:") \o <<" ", "Generic", "\n">>
       \o Label("Serial Number:") \o <<" ", "S1", "\n">>}

ConstructedVendorTexts ==
    {<<"Health:", " ", "8", "3", "%", "\n">> \o BracketLine("Temperature", 40),
     <<"Health:", " ", "8", "3", "%", "\r", "\n">>}
    \cup RerunTexts

\* One reporter is constructed, then its public fetch and parse methods
\* and its accessors are called in any order.
NextPublic ==
    \/ __init__(1, Str(<<"/dev/sda">>))
    \/ InitFetchGeneric(1, Outcomes(ConstructedTexts))
    \/ InitParseGeneric(1)
    \/ KnownVendorPart(1)
    \/ InitFetchVendor(1, Outcomes(ConstructedVendorTexts))
    \/ InitParseVendor(1)
    \/ CallFetchGeneric(1, CallerDevices, Outcomes(CallerGenericTexts))
    \/ CallParseGeneric(1)
    \/ CallFetchVendor(1, CallerDevices, CallerModels,
                       Outcomes(CallerVendorTexts))
    \/ CallParseVendor(1, CallerModels)
    \/ CallParseInnodisk(1)
    \/ CallParseVirtium(1)
    \/ Read(1)

SpecPublic == Init /\ [][NextPublic]_vars

\* ------------------------------------------------------------- properties

Unknown == Str(<<"Unknown">>)

Finished(i) == pc[i] \in {"done", "raised"}

\* What reporter i reads from attribute a.
Field(i, a) == Attr(cls, obj[i], a)

\* The calls the constructor of reporter i made: the log up to the first
\* call from outside.
ConstructionLog(i) ==
    LET L == log[i]
        first == {k \in 1..Len(L) :
                    L[k].op = "call" /\ \A j \in 1..k - 1 : L[j].op # "call"}
    IN  IF first = {} THEN L
        ELSE SubSeq(L, 1, (CHOOSE k \in first : TRUE) - 1)

\* The text captured from the generic tool for reporter i.
GenericOutput(i) == ConstructionLog(i)[1].out

\* The constructor of reporter i started a vendor tool, and the text
\* captured from it.
VendorProbed(i) == Len(ConstructionLog(i)) >= 3

VendorOutput(i) == ConstructionLog(i)[3].out

HasToken(text, tok) == \E k \in 1..Len(text) : text[k] = tok

\* The text holds the label.
HasLabel(text, label) ==
    \E k \in 1..Len(text) - Len(Label(label)) + 1 :
        SubSeq(text, k, k + Len(Label(label)) - 1) = Label(label)

VendorFieldsUnavailable(i) ==
    \A a \in VendorAttrs : Field(i, a) = NOT_AVAILABLE

\* The rest of the first line that starts with the label, read column by
\* column; <<>> when the label is absent.
Columns(text, label) ==
    IF ~HasToken(text, label) THEN <<>>
    ELSE LET k == CHOOSE m \in 1..Len(text) :
                    text[m] = label /\ \A j \in 1..m - 1 : text[j] # label
             e == CHOOSE m \in k..Len(text) :
                    /\ \A j \in k..m : text[j] # "\n"
                    /\ (m < Len(text) => text[m + 1] = "\n")
         IN  split(SubSeq(text, k + 1, e))

\* The value column of a SMART attribute line: the column after the
\* optional numeric ID column.
ValueColumn(text, label) ==
    LET cols == Columns(text, label)
    IN  IF Len(cols) = 1 THEN Str(cols[1])
        ELSE IF Len(cols) = 2 /\ IsNumeric(Str(cols[1])) THEN Str(cols[2])
        ELSE NOT_AVAILABLE

Keys == {"Generic", "InnoDisk", "M.2", "StorFly", "Virtium"}

\* The first whitespace-delimited token of reporter i's model, "" if none.
FirstToken(i) ==
    LET words == split(Field(i, "model").str)
    IN  IF words = <<>> THEN "" ELSE Join(words[1])

\* C1: when the generic output has no "Device Model:" line, get_model()
\* returns "Unknown", no vendor probe is executed and every vendor field is
\* not available.
C1_NoModelLineGivesUnknown ==
    \A i \in Reporters :
        (/\ pc[i] = "done"
         /\ ~HasLabel(GenericOutput(i).str, "Device Model:"))
        => /\ ~VendorProbed(i)
           /\ VendorFieldsUnavailable(i)
           /\ Field(i, "model") = Unknown
           /\ (ret.who = i /\ ret.fn = "get_model" => ret.val = Unknown)

\* The NAND_Endurance value is 0, missing or not a number, or the
\* Average_Erase_Count value is missing or not a number.
NoWearRatio(text) ==
    LET n == ValueColumn(text, "NAND_Endurance")
        a == ValueColumn(text, "Average_Erase_Count")
    IN  \/ ~IsNumeric(n)
        \/ ~IsNumeric(a)
        \/ DigitsToInt(n.str) = 0

\* C2: when the Virtium parser gets an output whose NAND_Endurance is 0 or
\* whose NAND_Endurance or Average_Erase_Count is missing or non-numeric,
\* construction completes without raising and the health is not available.
C2_VirtiumBadRatioIsUnavailable ==
    \A i \in Reporters :
        (/\ pc[i] \in {"done", "raised"}
         /\ VendorProbed(i)
         /\ VendorOutput(i) # Unset
         /\ vendor_ssd_utility[model_short[i]].parser = "parse_virtium_info"
         /\ NoWearRatio(VendorOutput(i).str))
        => /\ pc[i] = "done"
           /\ Field(i, "health") = NOT_AVAILABLE

\* C3: construction always completes normally: no constructor raises,
\* whatever the tools print and whether or not they can be executed.
C3_ConstructionNeverRaises ==
    \A i \in Reporters :
        /\ pc[i] # "raised"
        /\ exc[i] = "none"

\* The command line bound to a key, for a device, as an argument vector.
ExpectedCommand(key, dev) ==
    Argv(CASE key \in {"InnoDisk", "M.2"} ->
                <<"iSmart", " ", "-d", " ">> \o dev.str
           [] key \in {"StorFly", "Virtium"} ->
                <<"SmartCmd", " ", "-m", " ">> \o dev.str
           [] key = "Generic" ->
                <<"smartctl", " ">> \o dev.str \o <<" ", "-a">>)

ExpectedParser(key) ==
    CASE key \in {"InnoDisk", "M.2"} -> "parse_innodisk_info"
      [] key \in {"StorFly", "Virtium"} -> "parse_virtium_info"
      [] key = "Generic" -> "parse_generic_ssd_info"

\* C4: the calls a constructor makes are, in this order, the generic
\* probe, its parse and then, if and only if the first token of the parsed
\* model is a key of the dispatch table, one vendor probe with the command
\* bound to that key followed by the parser bound to that key, which for
\* the InnoDisk and Virtium keys reads the vendor output.
C4_DispatchOnFirstToken ==
    \A i \in Reporters :
        LET L == ConstructionLog(i)
            dev == obj[i].dev
            key == FirstToken(i)
        IN  /\ Len(L) <= 4
            /\ Len(L) >= 1 =>
                 /\ L[1].op = "exec"
                 /\ L[1].what = ExpectedCommand("Generic", dev)
            /\ Len(L) >= 2 =>
                 /\ L[2].op = "parse"
                 /\ L[2].what = <<"parse_generic_ssd_info">>
            /\ Len(L) >= 3 =>
                 /\ key \in Keys
                 /\ L[3].op = "exec"
                 /\ L[3].what = ExpectedCommand(key, dev)
            /\ Len(L) >= 4 =>
                 /\ L[4].op = "parse"
                 /\ L[4].what = <<ExpectedParser(key)>>
                 /\ key # "Generic" => L[4].read = L[3].out
            /\ (Finished(i) /\ Len(L) >= 2) =>
                 Len(L) = IF key \in Keys THEN 4 ELSE 2

\* C5: when the first token of the model is not a key of the dispatch
\* table, no vendor command is executed, every vendor field stays not
\* available, and model, serial and firmware are what the generic output
\* gives.
C5_MissLeavesVendorFields ==
    \A i \in Reporters :
        (pc[i] = "done" /\ FirstToken(i) \notin Keys)
        => /\ Len(ConstructionLog(i)) = 2
           /\ VendorFieldsUnavailable(i)
           /\ Field(i, "model") =
                _parse_re(LinePattern("Device Model:"), GenericOutput(i))
           /\ Field(i, "serial") =
                _parse_re(LinePattern("Serial Number:"), GenericOutput(i))
           /\ Field(i, "firmware") =
                _parse_re(LinePattern("Firmware Version:"), GenericOutput(i))

C5_Witness ==
    /\ pc[1] = "done"
    /\ Field(1, "model") = Str(<<"XYZ", " ", "XYZ">>)
    /\ Field(1, "serial") = Str(<<"S1">>)
    /\ Field(1, "firmware") = Str(<<"F1">>)
    /\ ret.fn = "get_health"
    /\ ret.val = NOT_AVAILABLE

\* Both attribute lines have the shape label, optional numeric ID column,
\* value, with numeric values and a non-zero NAND_Endurance.
WellFormedWear(text) ==
    /\ IsNumeric(ValueColumn(text, "Average_Erase_Count"))
    /\ IsNumeric(ValueColumn(text, "NAND_Endurance"))
    /\ DigitsToInt(ValueColumn(text, "NAND_Endurance").str) # 0

\* C6: for well-formed Virtium output with values A and N the health is
\* 100 - A * 100 / N, with or without the numeric ID column.
C6_VirtiumHealthFromValueColumns ==
    \A i \in Reporters :
        (/\ pc[i] \in {"done", "raised"}
         /\ VendorProbed(i)
         /\ VendorOutput(i) # Unset
         /\ vendor_ssd_utility[model_short[i]].parser = "parse_virtium_info"
         /\ WellFormedWear(VendorOutput(i).str))
        => LET a == DigitsToInt(
                      ValueColumn(VendorOutput(i).str,
                                  "Average_Erase_Count").str)
               n == DigitsToInt(
                      ValueColumn(VendorOutput(i).str, "NAND_Endurance").str)
           IN  /\ pc[i] = "done"
               /\ Field(i, "health") = Health(a, n)

\* C7: no reporter changes the attributes of the class, which every
\* reporter reads where it has none of its own; a reporter's model, serial
\* and firmware are those of its own generic text, and one for which no
\* vendor tool was run has no vendor field, whatever was constructed before
\* it; two reporters constructed over the same captured generic and vendor
\* text read the same value from every field.
C7_ReportersAreIndependent ==
    /\ cls = SsdUtil
    /\ \A i \in Reporters :
        pc[i] = "done" =>
            /\ Field(i, "model") =
                 _parse_re(LinePattern("Device Model:"), GenericOutput(i))
            /\ Field(i, "serial") =
                 _parse_re(LinePattern("Serial Number:"), GenericOutput(i))
            /\ Field(i, "firmware") =
                 _parse_re(LinePattern("Firmware Version:"),
                           GenericOutput(i))
            /\ ~VendorProbed(i) => VendorFieldsUnavailable(i)
            /\ \A j \in Reporters :
                 (/\ pc[j] = "done"
                  /\ GenericOutput(j) = GenericOutput(i)
                  /\ VendorProbed(j) = VendorProbed(i)
                  /\ VendorProbed(i) => VendorOutput(j) = VendorOutput(i))
                 => \A a \in AttrNames : Field(j, a) = Field(i, a)

C7_Witness ==
    /\ pc[1] = "done"
    /\ pc[2] = "done"
    /\ model_short[1] = "InnoDisk"
    /\ Field(1, "health") = Str(<<"8", "3">>)
    /\ model_short[2] = "XYZ"
    /\ Field(2, "health") = NOT_AVAILABLE
    /\ ret.who = 2
    /\ ret.fn = "get_temperature"

\* The text captured by the last vendor command among the first n calls
\* of reporter i whose output was captured; not available when there is
\* none.
LastVendorCaptured(i, n) ==
    LET L == log[i]
        ran == {k \in 1..n :
                  /\ L[k].op = "exec"
                  /\ L[k].by = "fetch_vendor_ssd_info"
                  /\ L[k].out # Unset}
    IN  IF ran = {} THEN NOT_AVAILABLE
        ELSE L[CHOOSE k \in ran : \A j \in ran : j <= k].out

\* The k-th call of reporter i is a parser called through the dispatch
\* table: by the constructor, or by parse_vendor_ssd_info.
IsVendorParse(i, k) ==
    /\ log[i][k].op = "parse"
    /\ \/ k = 4 /\ Len(ConstructionLog(i)) = 4
       \/ /\ k > 1
          /\ log[i][k - 1].op = "call"
          /\ log[i][k - 1].by = "parse_vendor_ssd_info"

\* C8: get_vendor_output() returns the text captured from the vendor
\* command, which is the text the vendor parser read, or not available
\* when no vendor command was run; and an accessor call on a constructed
\* reporter leaves every field of the reporter as it was.
C8_VendorOutputRoundTrip ==
    /\ [](\A i \in Reporters :
            pc[i] = "done" =>
                /\ Field(i, "vendor_ssd_info") =
                     LastVendorCaptured(i, Len(log[i]))
                /\ (ret.who = i /\ ret.fn = "get_vendor_output"
                    => ret.val = LastVendorCaptured(i, Len(log[i])))
                /\ \A k \in 1..Len(log[i]) :
                     IsVendorParse(i, k)
                     => log[i][k].read = LastVendorCaptured(i, k))
    /\ [][\A i \in Reporters :
            (pc[i] = "done" /\ log'[i] = log[i]) =>
                /\ pc'[i] = "done"
                /\ \A a \in AttrNames :
                     Attr(cls', obj'[i], a) = Attr(cls, obj[i], a)]_vars

\* C9: get_health() returns a number or the not-available sentinel, never
\* the captured text; for InnoDisk output with "Health: 83%" it returns the
\* number 83.
C9_HealthIsANumber ==
    \A i \in Reporters :
        (pc[i] = "done" /\ ret.who = i /\ ret.fn = "get_health")
        => /\ ret.val.type = "float" \/ ret.val = NOT_AVAILABLE
           /\ (/\ VendorProbed(i)
               /\ model_short[i] \in {"InnoDisk", "M.2"}
               /\ VendorOutput(i).str =
                    <<"Health:", " ", "8", "3", "%", "\n">>)
              => ret.val = Flt(FALSE, 83, <<>>)

\* A health that is a percentage: a number from 0 to 100, given as a float
\* or as a numeral.
IsPercentage(v) ==
    \/ /\ v.type = "float"
       /\ ~v.neg
       /\ v.whole < 100 \/ (v.whole = 100 /\ v.frac = <<>>)
    \/ IsNumeric(v) /\ DigitsToInt(v.str) <= 100

\* C10: the health of a constructed reporter is not available or a number
\* from 0 to 100.
C10_HealthInRange ==
    \A i \in Reporters :
        pc[i] = "done" =>
            \/ Field(i, "health") = NOT_AVAILABLE
            \/ IsPercentage(Field(i, "health"))

====
